---- MODULE Spec2Model ----
(***************************************************************************)
(* vsphere_exporter: one scrape of Exporter.Collect and the collection     *)
(* goroutines it starts.                                                   *)
(*                                                                         *)
(* The repository holds three revisions of the host collector and two of   *)
(* the datastore collector:                                                *)
(*   "concurrent"  collectHostMetrics + collectHostMetricFromCluster        *)
(*                 (src/unnamed/part_000:99-152), one goroutine a cluster,  *)
(*                 with the per-datacenter collectDatastoreMetrics          *)
(*                 (src/datastore.go:58-91);                                *)
(*   "sequential"  collectHostMetrics (src/unnamed/part_000:227-265), the   *)
(*                 clusters of a datacenter walked in one goroutine, with   *)
(*                 the same per-datacenter datastore collector;             *)
(*   "flat"        collectHostMetrics (src/host.go:72-92) and               *)
(*                 collectDatastoreMetrics (src/datastore.go:146-166),      *)
(*                 which read the inventory-wide container views.           *)
(* The variable build says which revision runs; Exporter.Collect           *)
(* (src/vsphere_exporter.go:94-119) starts the goroutines in each.         *)
(***************************************************************************)
EXTENDS Integers, Sequences, FiniteSets, TLC

\* Bounds of the inventory: its datacenters, its clusters (over all the
\* datacenters), the hosts of a cluster, the datastores of a datacenter.
MaxDC == 2
MaxClusters == 2
MaxHosts == 1
MaxDS == 1

VARIABLES
    build,            \* the revision of the collectors that runs
    inventory,        \* the vCenter inventory, unchanged during a scrape
    pc,               \* where Exporter.Collect is
    listErr,          \* whether f.DatacenterList returned an error
    i,                \* the datacenter the loop of Collect is at
    fdc,              \* the datacenter the shared Finder f is set to (0: none)
    vcenterAvailable, \* e.vcenterAvailable
    wg,               \* the counter of Collect's sync.WaitGroup
    wgClusters,       \* the counter of each host goroutine's wgClusters
    task,             \* the goroutines: position and local variables
    ch,               \* the samples sent on ch, kept by sender in send order
    crashed,          \* the process died (a panic or a runtime fatal error)
    poll,             \* the number of the scrape Collect is serving
    prev,             \* what the scrape before this one sent
    summary,          \* h.Summary, the host a metric getter is applied to
    value             \* what each host metric getter returned for it

vars == <<build, inventory, pc, listErr, i, fdc, vcenterAvailable, wg,
          wgClusters, task, ch, crashed, poll, prev, summary, value>>

\* What no step of a scrape changes.
env == <<build, inventory, poll, prev, summary, value>>

Builds == {"concurrent", "sequential", "flat"}

Hierarchical == build # "flat"

(***************************************************************************)
(* The inventory: dcs datacenters; datacenter d holds cl[d] clusters and   *)
(* ds[d] datastores; every cluster holds hosts hosts.                      *)
(***************************************************************************)
DCs == 1..MaxDC

RECURSIVE Sum(_, _)
Sum(f, n) == IF n = 0 THEN 0 ELSE f[n] + Sum(f, n - 1)

Inventories ==
    { v \in [dcs : 0..MaxDC, cl : [DCs -> 0..MaxClusters],
             hosts : 0..MaxHosts, ds : [DCs -> 0..MaxDS]] :
        /\ \A d \in DCs : d > v.dcs => v.cl[d] = 0 /\ v.ds[d] = 0
        /\ Sum(v.cl, MaxDC) <= MaxClusters
        /\ (\A d \in DCs : v.cl[d] = 0) => v.hosts = 0 }

\* The objects, named by their place in the inventory.
ClustersOf(d) == [c \in 1..inventory.cl[d] |-> <<d, c>>]

HostsOf(cluster) == [h \in 1..inventory.hosts |-> <<cluster[1], cluster[2], h>>]

DatastoresOf(d) == [n \in 1..inventory.ds[d] |-> <<d, n>>]

RECURSIVE Concat(_)
Concat(seqs) == IF seqs = <<>> THEN <<>> ELSE Head(seqs) \o Concat(Tail(seqs))

\* What the container views hold: every host and datastore of the inventory.
AllClusters == Concat([d \in 1..inventory.dcs |-> ClustersOf(d)])

AllHosts == Concat([n \in 1..Len(AllClusters) |-> HostsOf(AllClusters[n])])

AllDatastores == Concat([d \in 1..inventory.dcs |-> DatastoresOf(d)])

\* Names, as the label getters and Name() give them.
DcName(d) == <<"datacenter", d>>

ClusterName(c) == <<"cluster", c[1], c[2]>>

\* A host snapshot as pc.Retrieve fills it, and the zero value of mo.HostSystem.
HostSnapshot(h) == [name |-> <<"host", h[1], h[2], h[3]>>, ref |-> h, retrieved |-> TRUE]

ZeroSnapshot == [name |-> <<>>, ref |-> <<>>, retrieved |-> FALSE]

DatastoreSnapshot(s) == [name |-> <<"datastore", s[1], s[2]>>, ref |-> s, retrieved |-> TRUE]

(***************************************************************************)
(* The metric definitions.                                                 *)
(***************************************************************************)
hostMetrics ==
    << "esxi_memory_total_bytes", "esxi_memory_usage_bytes", "esxi_cpu_total_mhz",
       "esxi_cpu_usage_mhz", "esxi_connected_state", "esxi_disconnected_state",
       "esxi_not_responding_state" >>

datastoreMetrics ==
    << "datastore_capacity_bytes", "datastore_free_space_bytes",
       "datastore_accessibility" >>

hostLabelNames ==
    CASE build = "concurrent" -> <<"name", "datacenter", "cluster">>
      [] build = "sequential" -> <<"host", "datacenter", "cluster">>
      [] build = "flat" -> <<"host">>

datastoreLabelNames ==
    IF build = "flat" THEN <<"name">> ELSE <<"name", "datacenter">>

\* The label getters of a metric: getHostName, getDatastoreName.
hostLabelValues == <<"getHostName">>

datastoreLabelValues == <<"getDatastoreName">>

LabelGetter(getter, snapshot) == snapshot.name

GetterLabels(getters, snapshot) ==
    [g \in 1..Len(getters) |-> LabelGetter(getters[g], snapshot)]

\* HostLabels without labelValues = append(labelValues, cluster.Name()).
HostLabelsNoCluster(snapshot, d, cluster) ==
    IF build = "flat" THEN GetterLabels(hostLabelValues, snapshot)
    ELSE Append(GetterLabels(hostLabelValues, snapshot), DcName(d))

\* HostLabels with the two appends the other way round.
HostLabelsSwapped(snapshot, d, cluster) ==
    IF build = "flat" THEN GetterLabels(hostLabelValues, snapshot)
    ELSE Append(Append(GetterLabels(hostLabelValues, snapshot), ClusterName(cluster)),
                DcName(d))

\* labelValues of a host sample: the getters' values, then the datacenter
\* and the cluster names in the per-datacenter revisions.
HostLabels(snapshot, d, cluster) ==
    IF build = "flat" THEN GetterLabels(hostLabelValues, snapshot)
    ELSE Append(Append(GetterLabels(hostLabelValues, snapshot), DcName(d)),
                ClusterName(cluster))

DatastoreLabels(snapshot, d) ==
    IF build = "flat" THEN GetterLabels(datastoreLabelValues, snapshot)
    ELSE Append(GetterLabels(datastoreLabelValues, snapshot), DcName(d))

\* The label names a metric's Desc was made with.
DescLabels(metric) ==
    IF \E m \in 1..Len(hostMetrics) : hostMetrics[m] = metric THEN hostLabelNames
    ELSE IF \E m \in 1..Len(datastoreMetrics) : datastoreMetrics[m] = metric
         THEN datastoreLabelNames
    ELSE <<>>

\* A sample of an object: the metric's name and the label values; of and
\* retrieved keep the object it was built from and whether its properties
\* had been retrieved.
Sample(metric, labels, snapshot) ==
    [name |-> metric, labels |-> labels,
     of |-> snapshot.ref, retrieved |-> snapshot.retrieved]

\* HostSamples with the loop over hostMetrics ending one metric early.
HostSamplesButLast(snapshot, d, cluster) ==
    [m \in 1..(Len(hostMetrics) - 1) |->
        Sample(hostMetrics[m], HostLabels(snapshot, d, cluster), snapshot)]

\* What the loops over hostMetrics / datastoreMetrics send for one object.
HostSamples(snapshot, d, cluster) ==
    [m \in 1..Len(hostMetrics) |->
        Sample(hostMetrics[m], HostLabels(snapshot, d, cluster), snapshot)]

DatastoreSamples(snapshot, d) ==
    [m \in 1..Len(datastoreMetrics) |->
        Sample(datastoreMetrics[m], DatastoreLabels(snapshot, d), snapshot)]

\* e.up, a gauge never set, and the vcenter_available sample.
UpSample == [name |-> "vsphere_up", labels |-> <<>>, value |-> 0,
             of |-> <<>>, retrieved |-> TRUE]

AvailabilityValue == vcenterAvailable

AvailableSample ==
    [name |-> "vcenter_available", labels |-> <<>>, value |-> AvailabilityValue,
     of |-> <<>>, retrieved |-> TRUE]

(***************************************************************************)
(* The metric getters.  The fields they read are Go integers of a fixed    *)
(* width (OverallMemoryUsage, OverallCpuUsage, CpuMhz: int32; NumCpuCores: *)
(* int16; MemorySize and units.ByteSize: int64) and what they return is a  *)
(* float64.  An integer of width w is the sequence of the w / 8 bytes of   *)
(* its two's complement, lowest first; a number with no width (a           *)
(* float64's value, a product in the integers) is a sign and the bits of   *)
(* its magnitude, lowest first, with no leading zero.                      *)
(***************************************************************************)
\* The width of int64 and of units.ByteSize, and the bits of a float64's
\* significand.
Width64 == 64
Mantissa == 53

\* Byte b of the two's complement of n, an integer of at most 32 bits.
Byte(n, b) == IF b >= 4 THEN (IF n < 0 THEN 255 ELSE 0) ELSE (n \div (256 ^ b)) % 256

\* The conversion of n to an integer type of width w.
ToBits(n, w) == [b \in 1..(w \div 8) |-> Byte(n, b - 1)]

\* The conversion of the integer x to the width of w bytes: sign extension
\* or truncation.
Extend(x, w) ==
    [b \in 1..w |-> IF b <= Len(x) THEN x[b]
                    ELSE IF x[Len(x)] >= 128 THEN 255 ELSE 0]

\* x + y of two integers of one width, the carry out of the top byte lost.
RECURSIVE AddFrom(_, _, _, _)
AddFrom(x, y, b, carry) ==
    IF b > Len(x) THEN <<>>
    ELSE <<(x[b] + y[b] + carry) % 256>>
            \o AddFrom(x, y, b + 1, (x[b] + y[b] + carry) \div 256)

Add(x, y) == AddFrom(x, y, 1, 0)

\* x times the byte k, shifted up by n bytes, in the width of x.
RECURSIVE ScaleFrom(_, _, _, _, _)
ScaleFrom(x, k, n, b, carry) ==
    IF b > Len(x) THEN <<>>
    ELSE IF b <= n THEN <<0>> \o ScaleFrom(x, k, n, b + 1, 0)
    ELSE <<(x[b - n] * k + carry) % 256>>
            \o ScaleFrom(x, k, n, b + 1, (x[b - n] * k + carry) \div 256)

\* x * y in the width of x, the bits above it lost.
RECURSIVE MulFrom(_, _, _)
MulFrom(x, y, b) ==
    IF b > Len(y) THEN [c \in 1..Len(x) |-> 0]
    ELSE Add(ScaleFrom(x, y[b], b - 1, 1, 0), MulFrom(x, y, b + 1))

Mul(x, y) == MulFrom(x, Extend(y, Len(x)), 1)

Negate(x) == Add([b \in 1..Len(x) |-> 255 - x[b]], [b \in 1..Len(x) |-> IF b = 1 THEN 1 ELSE 0])

\* Numbers with no width.
Bits(x) == [b \in 1..(8 * Len(x)) |-> (x[(b - 1) \div 8 + 1] \div (2 ^ ((b - 1) % 8))) % 2]

Trim(x) ==
    IF \A b \in 1..Len(x) : x[b] = 0 THEN <<>>
    ELSE SubSeq(x, 1, CHOOSE b \in 1..Len(x) :
                        x[b] = 1 /\ \A c \in (b + 1)..Len(x) : x[c] = 0)

\* The number an integer of some width stands for.
Number(x) ==
    IF x[Len(x)] >= 128 THEN [neg |-> TRUE, mag |-> Trim(Bits(Negate(x)))]
    ELSE [neg |-> FALSE, mag |-> Trim(Bits(x))]

\* The number n, and the product of two integers in the integers: twice
\* the width of the wider holds it.
Exact(n) == Number(ToBits(n, Width64))

Product(x, y) ==
    LET w == 2 * (IF Len(x) > Len(y) THEN Len(x) ELSE Len(y))
    IN Number(Mul(Extend(x, w), Extend(y, w)))

\* x + 1 of the bits x, one bit longer when every bit of x is 1.
Increment(x) ==
    LET y == x \o <<0>>
        z == CHOOSE b \in 1..Len(y) : y[b] = 0 /\ \A c \in 1..(b - 1) : y[c] = 1
    IN Trim([b \in 1..Len(y) |-> IF b < z THEN 0 ELSE IF b = z THEN 1 ELSE y[b]])

\* float64(x) of the int64 x: the nearest number with a significand of
\* Mantissa bits, the even one of two equally near.
Float64(x) ==
    LET n == Number(x)
        drop == Len(n.mag) - Mantissa
        kept == SubSeq(n.mag, drop + 1, Len(n.mag))
        up == /\ n.mag[drop] = 1
              /\ \/ kept[1] = 1
                 \/ \E b \in 1..(drop - 1) : n.mag[b] = 1
        rounded == IF up THEN Increment(kept) ELSE kept
    IN IF drop <= 0 THEN n
       ELSE [neg |-> n.neg, mag |-> [b \in 1..drop |-> 0] \o rounded]

\* ByteSize were it no wider than the int32 it converts.
ByteSize32(n) == ToBits(n, 32)

\* units.ByteSize(n) of an int32.
ByteSize(n) == ToBits(n, Width64)

\* hostMetricGetterFuncRegistry, applied to h.Summary.
getMemorySize(s) == Float64(s.MemorySize)

getMemoryUsage(s) ==
    Float64(Mul(Mul(ByteSize(s.OverallMemoryUsage), ToBits(1024, Width64)),
                ToBits(1024, Width64)))

getCPUTotal(s) ==
    Float64(Mul(ToBits(s.CpuMhz, Width64), ToBits(s.NumCpuCores, Width64)))

getCpuUsage(s) == Float64(ToBits(s.OverallCpuUsage, Width64))

getConnectedState(s) ==
    IF s.ConnectionState = "connected" THEN Exact(1) ELSE Exact(0)

\* getDisconnectedState comparing with the constant of getConnectedState.
getDisconnectedStateConnected(s) ==
    IF s.ConnectionState = "connected" THEN Exact(1) ELSE Exact(0)

getDisconnectedState(s) ==
    IF s.ConnectionState = "disconnected" THEN Exact(1) ELSE Exact(0)

getNotRespondingState(s) ==
    IF s.ConnectionState = "notResponding" THEN Exact(1) ELSE Exact(0)

\* metric.metricGetter(h) of the metric of hostMetrics named name.
metricGetter(name, s) ==
    CASE name = "esxi_memory_total_bytes" -> getMemorySize(s)
      [] name = "esxi_memory_usage_bytes" -> getMemoryUsage(s)
      [] name = "esxi_cpu_total_mhz" -> getCPUTotal(s)
      [] name = "esxi_cpu_usage_mhz" -> getCpuUsage(s)
      [] name = "esxi_connected_state" -> getConnectedState(s)
      [] name = "esxi_disconnected_state" -> getDisconnectedState(s)
      [] name = "esxi_not_responding_state" -> getNotRespondingState(s)

(***************************************************************************)
(* The goroutines.                                                         *)
(***************************************************************************)
Collector == [kind |-> "collect", dc |-> 0, idx |-> 0]

HostTask(d) == [kind |-> "host", dc |-> d, idx |-> 0]

DatastoreTask(d) == [kind |-> "datastore", dc |-> d, idx |-> 0]

ClusterTask(d, k) == [kind |-> "cluster", dc |-> d, idx |-> k]

Tasks ==
    {HostTask(d) : d \in DCs} \cup {DatastoreTask(d) : d \in DCs}
        \cup {ClusterTask(d, k) : d \in DCs, k \in 1..MaxClusters}

Senders == Tasks \cup {Collector}

\* A goroutine not started yet.  at: its position; err: the call of its that
\* failed; clusters, ci: the clusters it walks and the one it is at; objs, k:
\* the objects it listed and the one it is at; snap: the snapshot in hand;
\* calls: the property retrievals (pc.Retrieve, host.Properties, the Retrieve
\* of a container view) it has made.
NoTask ==
    [at |-> "none", err |-> "none", clusters |-> <<>>, ci |-> 0,
     objs |-> <<>>, k |-> 0, snap |-> ZeroSnapshot, calls |-> 0]

Started == [NoTask EXCEPT !.at = "start"]

Finished(t) == task[t].at \in {"none", "done"}

Send(sender, samples) == [ch EXCEPT ![sender] = @ \o samples]

\* Before the first scrape there is none to remember; outside the evaluation
\* of the getters there is no host in hand and no value.
NoScrape == [listErr |-> FALSE, reported |-> <<>>, ok |-> FALSE, pairs |-> {}]

NoSummary ==
    [MemorySize |-> ToBits(0, Width64), OverallMemoryUsage |-> 0, CpuMhz |-> 0,
     NumCpuCores |-> 0, OverallCpuUsage |-> 0, ConnectionState |-> ""]

NoValue == <<>>

Init ==
    /\ build \in Builds
    /\ inventory \in Inventories
    /\ pc = "idle"
    /\ listErr = FALSE
    /\ i = 0
    /\ fdc = 0
    /\ vcenterAvailable = 1
    /\ wg = 0
    /\ wgClusters = [d \in DCs |-> 0]
    /\ task = [t \in Tasks |-> NoTask]
    /\ ch = [s \in Senders |-> <<>>]
    /\ crashed = FALSE
    /\ poll = 1
    /\ prev = NoScrape
    /\ summary = NoSummary
    /\ value = NoValue

(***************************************************************************)
(* Exporter.Collect.                                                       *)
(***************************************************************************)
\* ch <- e.up; f.DatacenterList fails: the flag is cleared and Collect returns.
CollectListFails ==
    /\ ~crashed
    /\ pc = "idle"
    /\ ch' = Send(Collector, <<UpSample>>)
    /\ listErr' = TRUE
    /\ vcenterAvailable' = 0
    /\ pc' = "returned"
    /\ UNCHANGED <<env, i, fdc, wg, wgClusters, task, crashed>>

\* ResetValue without e.vcenterAvailable = 1: the flag as the scrape before
\* left it.
ResetValueStale == vcenterAvailable

\* e.vcenterAvailable = 1 once the listing has succeeded.
ResetValue == 1

\* ch <- e.up; f.DatacenterList succeeds; wg.Add(2 * len(datacenters)).
CollectList ==
    /\ ~crashed
    /\ pc = "idle"
    /\ ch' = Send(Collector, <<UpSample>>)
    /\ vcenterAvailable' = ResetValue
    /\ wg' = 2 * inventory.dcs
    /\ i' = 1
    /\ pc' = IF inventory.dcs = 0 THEN "wait" ELSE "loop"
    /\ UNCHANGED <<env, listErr, fdc, wgClusters, task, crashed>>

\* One turn of the loop: f.SetDatacenter(dc) and the two go statements.
CollectSpawn ==
    /\ ~crashed
    /\ pc = "loop"
    /\ fdc' = i
    /\ task' = [task EXCEPT ![HostTask(i)] = Started, ![DatastoreTask(i)] = Started]
    /\ i' = i + 1
    /\ pc' = IF i = inventory.dcs THEN "wait" ELSE "loop"
    /\ UNCHANGED <<env, listErr, vcenterAvailable, wg, wgClusters,
                   ch, crashed>>

\* Joined without the wg.Wait().
JoinedNoWait == TRUE

\* wg.Wait() has returned.
Joined == wg = 0

\* wg.Wait(), then the vcenter_available sample, and Collect returns.
CollectJoin ==
    /\ ~crashed
    /\ pc = "wait"
    /\ Joined
    /\ ch' = Send(Collector, <<AvailableSample>>)
    /\ pc' = "returned"
    /\ UNCHANGED <<env, listErr, i, fdc, vcenterAvailable, wg,
                   wgClusters, task, crashed>>

(***************************************************************************)
(* collectHostMetrics and collectHostMetricFromCluster, build "concurrent". *)
(***************************************************************************)
\* defer wg.Done() of a goroutine Collect started.
Done(t) == [task EXCEPT ![t] = [@ EXCEPT !.at = "done"]]

Failed(t, call) == [task EXCEPT ![t] = [@ EXCEPT !.at = "done", !.err = call]]

\* The same when the call that failed is the property retrieval.
RetrieveFailed(t) ==
    [task EXCEPT ![t] = [@ EXCEPT !.at = "done", !.err = "retrieve",
                                  !.calls = @ + 1]]

\* f.ClusterComputeResourceList fails: the goroutine returns.
HostListClustersFails(d) ==
    /\ ~crashed
    /\ build = "concurrent"
    /\ task[HostTask(d)].at = "start"
    /\ task' = Failed(HostTask(d), "clusters")
    /\ wg' = wg - 1
    /\ UNCHANGED <<env, pc, listErr, i, fdc, vcenterAvailable,
                   wgClusters, ch, crashed>>

\* f.ClusterComputeResourceList lists the clusters of the datacenter f is set
\* to; wgClusters.Add(len(clusters)) and one go statement a cluster.
HostListClusters(d) ==
    /\ ~crashed
    /\ build = "concurrent"
    /\ task[HostTask(d)].at = "start"
    /\ LET cs == ClustersOf(fdc)
       IN /\ wgClusters' = [wgClusters EXCEPT ![d] = Len(cs)]
          /\ task' = [t \in Tasks |->
                IF t = HostTask(d)
                THEN [task[t] EXCEPT !.at = "wait", !.clusters = cs]
                ELSE IF t.kind = "cluster" /\ t.dc = d /\ t.idx <= Len(cs)
                THEN [Started EXCEPT !.clusters = <<cs[t.idx]>>, !.ci = 1]
                ELSE task[t]]
    /\ UNCHANGED <<env, pc, listErr, i, fdc, vcenterAvailable, wg,
                   ch, crashed>>

\* ClustersJoined without the wgClusters.Wait().
ClustersJoinedNoWait(d) == TRUE

\* wgClusters.Wait() has returned.
ClustersJoined(d) == wgClusters[d] = 0

\* wgClusters.Wait(), and the goroutine returns.
HostJoin(d) ==
    /\ ~crashed
    /\ build = "concurrent"
    /\ task[HostTask(d)].at = "wait"
    /\ ClustersJoined(d)
    /\ task' = Done(HostTask(d))
    /\ wg' = wg - 1
    /\ UNCHANGED <<env, pc, listErr, i, fdc, vcenterAvailable,
                   wgClusters, ch, crashed>>

\* ClusterDone signalling twice.
ClusterDoneTwice(d) == [wgClusters EXCEPT ![d] = @ - 2]

\* defer wg.Done() of a goroutine collectHostMetrics started.
ClusterDone(d) == [wgClusters EXCEPT ![d] = @ - 1]

\* cluster.Hosts fails: the goroutine returns.
ClusterHostsFails(d, k) ==
    /\ ~crashed
    /\ task[ClusterTask(d, k)].at = "start"
    /\ task' = Failed(ClusterTask(d, k), "hosts")
    /\ wgClusters' = ClusterDone(d)
    /\ UNCHANGED <<env, pc, listErr, i, fdc, vcenterAvailable, wg,
                   ch, crashed>>

\* cluster.Hosts succeeds; with no host the goroutine returns.
ClusterHosts(d, k) ==
    /\ ~crashed
    /\ task[ClusterTask(d, k)].at = "start"
    /\ LET t == ClusterTask(d, k)
           hosts == HostsOf(task[t].clusters[1])
       IN IF Len(hosts) > 0
          THEN /\ task' = [task EXCEPT ![t] = [@ EXCEPT !.at = "listed", !.objs = hosts]]
               /\ UNCHANGED wgClusters
          ELSE /\ task' = Done(t)
               /\ wgClusters' = ClusterDone(d)
    /\ UNCHANGED <<env, pc, listErr, i, fdc, vcenterAvailable, wg,
                   ch, crashed>>

\* The hostsRefList writes, then pc.Retrieve fails: it is logged, hs stays
\* empty, the loop over hs sends nothing.
ClusterRetrieveFails(d, k) ==
    /\ ~crashed
    /\ task[ClusterTask(d, k)].at = "listed"
    /\ task' = RetrieveFailed(ClusterTask(d, k))
    /\ wgClusters' = ClusterDone(d)
    /\ UNCHANGED <<env, pc, listErr, i, fdc, vcenterAvailable, wg,
                   ch, crashed>>

\* The hostsRefList writes, then pc.Retrieve fills hs.
ClusterRetrieve(d, k) ==
    /\ ~crashed
    /\ task[ClusterTask(d, k)].at = "listed"
    /\ task' = [task EXCEPT ![ClusterTask(d, k)] =
                  [@ EXCEPT !.at = "send", !.k = 1, !.calls = @ + 1,
                            !.snap = HostSnapshot(task[ClusterTask(d, k)].objs[1])]]
    /\ UNCHANGED <<env, pc, listErr, i, fdc, vcenterAvailable, wg,
                   wgClusters, ch, crashed>>

\* The samples of one host of hs, in the order of hostMetrics.
ClusterSend(d, k) ==
    /\ ~crashed
    /\ task[ClusterTask(d, k)].at = "send"
    /\ LET t == ClusterTask(d, k)
           r == task[t]
       IN /\ ch' = Send(t, HostSamples(r.snap, d, r.clusters[1]))
          /\ IF r.k < Len(r.objs)
             THEN /\ task' = [task EXCEPT ![t] =
                                [@ EXCEPT !.k = r.k + 1,
                                          !.snap = HostSnapshot(r.objs[r.k + 1])]]
                  /\ UNCHANGED wgClusters
             ELSE /\ task' = Done(t)
                  /\ wgClusters' = ClusterDone(d)
    /\ UNCHANGED <<env, pc, listErr, i, fdc, vcenterAvailable, wg,
                   crashed>>

(***************************************************************************)
(* collectDatastoreMetrics, per datacenter (builds "concurrent" and        *)
(* "sequential").                                                          *)
(***************************************************************************)
\* f.DatastoreList fails: the goroutine returns.
DatastoreListFails(d) ==
    /\ ~crashed
    /\ Hierarchical
    /\ task[DatastoreTask(d)].at = "start"
    /\ task' = Failed(DatastoreTask(d), "list")
    /\ wg' = wg - 1
    /\ UNCHANGED <<env, pc, listErr, i, fdc, vcenterAvailable,
                   wgClusters, ch, crashed>>

\* f.DatastoreList lists the datastores of the datacenter f is set to; with
\* none the goroutine returns.
DatastoreList(d) ==
    /\ ~crashed
    /\ Hierarchical
    /\ task[DatastoreTask(d)].at = "start"
    /\ LET t == DatastoreTask(d)
           datastores == DatastoresOf(fdc)
       IN IF Len(datastores) > 0
          THEN /\ task' = [task EXCEPT ![t] =
                             [@ EXCEPT !.at = "listed", !.objs = datastores]]
               /\ UNCHANGED wg
          ELSE /\ task' = Done(t)
               /\ wg' = wg - 1
    /\ UNCHANGED <<env, pc, listErr, i, fdc, vcenterAvailable,
                   wgClusters, ch, crashed>>

\* The datastoresRefList writes, then pc.Retrieve fails: the goroutine returns.
DatastoreRetrieveFails(d) ==
    /\ ~crashed
    /\ task[DatastoreTask(d)].at = "listed"
    /\ task' = RetrieveFailed(DatastoreTask(d))
    /\ wg' = wg - 1
    /\ UNCHANGED <<env, pc, listErr, i, fdc, vcenterAvailable,
                   wgClusters, ch, crashed>>

\* The datastoresRefList writes, then pc.Retrieve fills ds.
DatastoreRetrieve(d) ==
    /\ ~crashed
    /\ task[DatastoreTask(d)].at = "listed"
    /\ task' = [task EXCEPT ![DatastoreTask(d)] =
                  [@ EXCEPT !.at = "send", !.k = 1, !.calls = @ + 1,
                            !.snap = DatastoreSnapshot(task[DatastoreTask(d)].objs[1])]]
    /\ UNCHANGED <<env, pc, listErr, i, fdc, vcenterAvailable, wg,
                   wgClusters, ch, crashed>>

\* The samples of one datastore of ds, in the order of datastoreMetrics
\* (the loop of both revisions of collectDatastoreMetrics).
DatastoreSend(d) ==
    /\ ~crashed
    /\ task[DatastoreTask(d)].at = "send"
    /\ LET t == DatastoreTask(d)
           r == task[t]
       IN /\ ch' = Send(t, DatastoreSamples(r.snap, d))
          /\ IF r.k < Len(r.objs)
             THEN /\ task' = [task EXCEPT ![t] =
                                [@ EXCEPT !.k = r.k + 1,
                                          !.snap = DatastoreSnapshot(r.objs[r.k + 1])]]
                  /\ UNCHANGED wg
             ELSE /\ task' = Done(t)
                  /\ wg' = wg - 1
    /\ UNCHANGED <<env, pc, listErr, i, fdc, vcenterAvailable,
                   wgClusters, crashed>>

(***************************************************************************)
(* collectHostMetrics, build "sequential": the clusters of the datacenter, *)
(* and the hosts of each, one after the other in the one goroutine.        *)
(***************************************************************************)
\* f.ClusterComputeResourceList fails: the goroutine returns.
SeqListClustersFails(d) ==
    /\ ~crashed
    /\ build = "sequential"
    /\ task[HostTask(d)].at = "start"
    /\ task' = Failed(HostTask(d), "clusters")
    /\ wg' = wg - 1
    /\ UNCHANGED <<env, pc, listErr, i, fdc, vcenterAvailable,
                   wgClusters, ch, crashed>>

\* f.ClusterComputeResourceList lists the clusters of the datacenter f is set to.
SeqListClusters(d) ==
    /\ ~crashed
    /\ build = "sequential"
    /\ task[HostTask(d)].at = "start"
    /\ LET t == HostTask(d)
           cs == ClustersOf(fdc)
       IN IF Len(cs) > 0
          THEN /\ task' = [task EXCEPT ![t] =
                             [@ EXCEPT !.at = "cluster", !.clusters = cs, !.ci = 1]]
               /\ UNCHANGED wg
          ELSE /\ task' = Done(t)
               /\ wg' = wg - 1
    /\ UNCHANGED <<env, pc, listErr, i, fdc, vcenterAvailable,
                   wgClusters, ch, crashed>>

\* c.Hosts fails: return, whatever clusters are left.
SeqHostsFails(d) ==
    /\ ~crashed
    /\ build = "sequential"
    /\ task[HostTask(d)].at = "cluster"
    /\ task' = Failed(HostTask(d), "hosts")
    /\ wg' = wg - 1
    /\ UNCHANGED <<env, pc, listErr, i, fdc, vcenterAvailable,
                   wgClusters, ch, crashed>>

\* The record of the goroutine once it is through with the hosts of cluster
\* ci: at the next cluster, or done.
SeqNextCluster(r) ==
    IF r.ci < Len(r.clusters)
    THEN [r EXCEPT !.at = "cluster", !.ci = r.ci + 1, !.objs = <<>>, !.k = 0]
    ELSE [r EXCEPT !.at = "done"]

\* c.Hosts succeeds.
SeqHosts(d) ==
    /\ ~crashed
    /\ build = "sequential"
    /\ task[HostTask(d)].at = "cluster"
    /\ LET t == HostTask(d)
           r == task[t]
           hosts == HostsOf(r.clusters[r.ci])
           after == IF Len(hosts) > 0
                    THEN [r EXCEPT !.at = "host", !.objs = hosts, !.k = 1]
                    ELSE SeqNextCluster(r)
       IN /\ task' = [task EXCEPT ![t] = after]
          /\ wg' = IF after.at = "done" THEN wg - 1 ELSE wg
    /\ UNCHANGED <<env, pc, listErr, i, fdc, vcenterAvailable,
                   wgClusters, ch, crashed>>

\* host.Properties fails: it is logged, h stays the zero value, and the loop
\* over hostMetrics follows.
SeqPropertiesFails(d) ==
    /\ ~crashed
    /\ build = "sequential"
    /\ task[HostTask(d)].at = "host"
    /\ task' = [task EXCEPT ![HostTask(d)] =
                  [@ EXCEPT !.at = "send", !.err = "properties", !.calls = @ + 1,
                            !.snap = ZeroSnapshot]]
    /\ UNCHANGED <<env, pc, listErr, i, fdc, vcenterAvailable, wg,
                   wgClusters, ch, crashed>>

\* host.Properties fills h.
SeqProperties(d) ==
    /\ ~crashed
    /\ build = "sequential"
    /\ task[HostTask(d)].at = "host"
    /\ task' = [task EXCEPT ![HostTask(d)] =
                  [@ EXCEPT !.at = "send", !.calls = @ + 1,
                            !.snap = HostSnapshot(task[HostTask(d)].objs[task[HostTask(d)].k])]]
    /\ UNCHANGED <<env, pc, listErr, i, fdc, vcenterAvailable, wg,
                   wgClusters, ch, crashed>>

\* The samples of h in the order of hostMetrics, then the next host, the
\* next cluster, or the end.  h is the zero value when host.Properties
\* failed: the getters then read the fields of an empty summary.
SeqSend(d) ==
    /\ ~crashed
    /\ build = "sequential"
    /\ task[HostTask(d)].at = "send"
    /\ LET t == HostTask(d)
           r == task[t]
           after == IF r.k < Len(r.objs)
                    THEN [r EXCEPT !.at = "host", !.k = r.k + 1]
                    ELSE SeqNextCluster(r)
       IN /\ ch' = Send(t, HostSamples(r.snap, d, r.clusters[r.ci]))
          /\ task' = [task EXCEPT ![t] = after]
          /\ wg' = IF after.at = "done" THEN wg - 1 ELSE wg
    /\ UNCHANGED <<env, pc, listErr, i, fdc, vcenterAvailable,
                   wgClusters, crashed>>

\* A getter dereferences a nil part of the zero value's summary: the
\* goroutine panics and the process dies.
SeqPanic(d) ==
    /\ ~crashed
    /\ build = "sequential"
    /\ task[HostTask(d)].at = "send"
    /\ ~task[HostTask(d)].snap.retrieved
    /\ crashed' = TRUE
    /\ UNCHANGED <<env, pc, listErr, i, fdc, vcenterAvailable, wg,
                   wgClusters, task, ch>>

(***************************************************************************)
(* collectHostMetrics and collectDatastoreMetrics, build "flat": one       *)
(* Retrieve on the container view, which holds the whole inventory.        *)
(***************************************************************************)
\* e.hostView.Retrieve fails: the flag is cleared.
FlatHostRetrieveFails(d) ==
    /\ ~crashed
    /\ build = "flat"
    /\ task[HostTask(d)].at = "start"
    /\ vcenterAvailable' = 0
    /\ task' = RetrieveFailed(HostTask(d))
    /\ wg' = wg - 1
    /\ UNCHANGED <<env, pc, listErr, i, fdc, wgClusters, ch, crashed>>

\* The record of a goroutine that Retrieve gave objs: at the first of them,
\* or done when there is none.
FlatRetrieved(r, objs, first) ==
    IF Len(objs) > 0
    THEN [r EXCEPT !.at = "send", !.objs = objs, !.k = 1, !.snap = first,
                   !.calls = @ + 1]
    ELSE [r EXCEPT !.at = "done", !.calls = @ + 1]

\* e.hostView.Retrieve succeeds: the flag is set.
FlatHostRetrieve(d) ==
    /\ ~crashed
    /\ build = "flat"
    /\ task[HostTask(d)].at = "start"
    /\ vcenterAvailable' = 1
    /\ LET t == HostTask(d)
           after == FlatRetrieved(task[t], AllHosts,
                        IF Len(AllHosts) > 0 THEN HostSnapshot(AllHosts[1])
                        ELSE ZeroSnapshot)
       IN /\ task' = [task EXCEPT ![t] = after]
          /\ wg' = IF after.at = "done" THEN wg - 1 ELSE wg
    /\ UNCHANGED <<env, pc, listErr, i, fdc, wgClusters, ch, crashed>>

\* The samples of one host of hs, in the order of hostMetrics.
FlatHostSend(d) ==
    /\ ~crashed
    /\ build = "flat"
    /\ task[HostTask(d)].at = "send"
    /\ LET t == HostTask(d)
           r == task[t]
       IN /\ ch' = Send(t, HostSamples(r.snap, d, <<>>))
          /\ IF r.k < Len(r.objs)
             THEN /\ task' = [task EXCEPT ![t] =
                                [@ EXCEPT !.k = r.k + 1,
                                          !.snap = HostSnapshot(r.objs[r.k + 1])]]
                  /\ UNCHANGED wg
             ELSE /\ task' = Done(t)
                  /\ wg' = wg - 1
    /\ UNCHANGED <<env, pc, listErr, i, fdc, vcenterAvailable,
                   wgClusters, crashed>>

\* e.datastoreView.Retrieve fails: the flag is cleared.
FlatDatastoreRetrieveFails(d) ==
    /\ ~crashed
    /\ build = "flat"
    /\ task[DatastoreTask(d)].at = "start"
    /\ vcenterAvailable' = 0
    /\ task' = RetrieveFailed(DatastoreTask(d))
    /\ wg' = wg - 1
    /\ UNCHANGED <<env, pc, listErr, i, fdc, wgClusters, ch, crashed>>

\* e.datastoreView.Retrieve succeeds: the flag is set.
FlatDatastoreRetrieve(d) ==
    /\ ~crashed
    /\ build = "flat"
    /\ task[DatastoreTask(d)].at = "start"
    /\ vcenterAvailable' = 1
    /\ LET t == DatastoreTask(d)
           after == FlatRetrieved(task[t], AllDatastores,
                        IF Len(AllDatastores) > 0 THEN DatastoreSnapshot(AllDatastores[1])
                        ELSE ZeroSnapshot)
       IN /\ task' = [task EXCEPT ![t] = after]
          /\ wg' = IF after.at = "done" THEN wg - 1 ELSE wg
    /\ UNCHANGED <<env, pc, listErr, i, fdc, wgClusters, ch, crashed>>

(***************************************************************************)
(* hostsRefList and datastoresRefList are package-level maps: two           *)
(* goroutines between their list call and their pc.Retrieve write the same *)
(* map at once, which the Go runtime may end with the fatal error          *)
(* "concurrent map writes".                                                *)
(***************************************************************************)
ConcurrentMapWrites ==
    /\ ~crashed
    /\ \E t1, t2 \in Tasks :
          /\ t1 # t2
          /\ t1.kind = t2.kind
          /\ task[t1].at = "listed"
          /\ task[t2].at = "listed"
    /\ crashed' = TRUE
    /\ UNCHANGED <<env, pc, listErr, i, fdc, vcenterAvailable, wg,
                   wgClusters, task, ch>>

Next ==
    \/ CollectListFails
    \/ CollectList
    \/ CollectSpawn
    \/ CollectJoin
    \/ \E d \in DCs :
          \/ HostListClustersFails(d)
          \/ HostListClusters(d)
          \/ HostJoin(d)
          \/ DatastoreListFails(d)
          \/ DatastoreList(d)
          \/ DatastoreRetrieveFails(d)
          \/ DatastoreRetrieve(d)
          \/ DatastoreSend(d)
          \/ SeqListClustersFails(d)
          \/ SeqListClusters(d)
          \/ SeqHostsFails(d)
          \/ SeqHosts(d)
          \/ SeqPropertiesFails(d)
          \/ SeqProperties(d)
          \/ SeqSend(d)
          \/ SeqPanic(d)
          \/ FlatHostRetrieveFails(d)
          \/ FlatHostRetrieve(d)
          \/ FlatHostSend(d)
          \/ FlatDatastoreRetrieveFails(d)
          \/ FlatDatastoreRetrieve(d)
          \/ \E k \in 1..MaxClusters :
                \/ ClusterHostsFails(d, k)
                \/ ClusterHosts(d, k)
                \/ ClusterRetrieveFails(d, k)
                \/ ClusterRetrieve(d, k)
                \/ ClusterSend(d, k)
    \/ ConcurrentMapWrites

Spec == Init /\ [][Next]_vars

(***************************************************************************)
(* What a scrape produced.                                                 *)
(***************************************************************************)
Returned == pc = "returned"

\* The vcenter_available samples Collect sent.
AvailabilitySent ==
    {n \in 1..Len(ch[Collector]) : ch[Collector][n].name = "vcenter_available"}

\* The goroutines that fetch the objects of a partition.
Fetchers ==
    {t \in Tasks : t.kind \in {"cluster", "datastore"}
                    \/ (t.kind = "host" /\ build # "concurrent")}

\* The samples of a goroutine whose every call succeeded: those of every
\* object it listed, in the order listed.
HostsExpected(t, cluster) ==
    Concat([h \in 1..Len(HostsOf(cluster)) |->
              HostSamples(HostSnapshot(HostsOf(cluster)[h]), t.dc, cluster)])

Expected(t) ==
    LET r == task[t]
    IN CASE t.kind = "datastore" ->
              Concat([n \in 1..Len(r.objs) |->
                        DatastoreSamples(DatastoreSnapshot(r.objs[n]), t.dc)])
         [] t.kind = "cluster" -> HostsExpected(t, r.clusters[1])
         [] t.kind = "host" /\ build = "flat" ->
              Concat([n \in 1..Len(r.objs) |->
                        HostSamples(HostSnapshot(r.objs[n]), t.dc, <<>>)])
         [] OTHER ->
              Concat([c \in 1..Len(r.clusters) |-> HostsExpected(t, r.clusters[c])])

\* A partition whose fetch succeeded, and one a call of which failed.
Succeeded(t) ==
    /\ t \in Fetchers
    /\ task[t].at = "done"
    /\ task[t].err = "none"
    /\ Expected(t) # <<>>

CallFailed(t) == task[t].at = "done" /\ task[t].err # "none"

\* Every call of the scrape succeeded.
NoCallFailed == ~listErr /\ \A t \in Tasks : task[t].err = "none"

\* The values of the vcenter_available samples sent, in the order sent.
RECURSIVE ReportedFrom(_)
ReportedFrom(n) ==
    IF n > Len(ch[Collector]) THEN <<>>
    ELSE IF ch[Collector][n].name = "vcenter_available"
         THEN <<ch[Collector][n].value>> \o ReportedFrom(n + 1)
         ELSE ReportedFrom(n + 1)

Reported == ReportedFrom(1)

\* The (metric name, label values) pairs of the samples sent.
Pairs ==
    UNION {{<<ch[t][n].name, ch[t][n].labels>> : n \in 1..Len(ch[t])} : t \in Senders}

(***************************************************************************)
(* Scrape after scrape: the registry calls Collect again once it has       *)
(* returned.  Collect makes a new Finder and a new WaitGroup; the Exporter *)
(* and its flag are those of the scrape before.  prev remembers of that    *)
(* scrape whether its listing failed, the availability it reported,        *)
(* whether every call succeeded and, when so, the pairs it sent.           *)
(***************************************************************************)
MaxPolls == 2

\* Bounds of the inventory the scrapes of SpecPolls run against: its
\* clusters and its datastores, over all the datacenters.
MaxPollClusters == 1
MaxPollDS == 1

Outcome ==
    [listErr |-> listErr, reported |-> Reported, ok |-> NoCallFailed,
     pairs |-> IF NoCallFailed THEN Pairs ELSE {}]

NextScrape ==
    /\ ~crashed
    /\ pc = "returned"
    /\ poll < MaxPolls
    /\ poll' = poll + 1
    /\ prev' = Outcome
    /\ pc' = "idle"
    /\ listErr' = FALSE
    /\ i' = 0
    /\ fdc' = 0
    /\ wg' = 0
    /\ wgClusters' = [d \in DCs |-> 0]
    /\ task' = [t \in Tasks |-> NoTask]
    /\ ch' = [s \in Senders |-> <<>>]
    /\ UNCHANGED <<build, inventory, vcenterAvailable, crashed, summary, value>>

NextPolls == Next \/ NextScrape

InitPolls ==
    /\ Init
    /\ Sum(inventory.cl, MaxDC) <= MaxPollClusters
    /\ Sum(inventory.ds, MaxDC) <= MaxPollDS

SpecPolls == InitPolls /\ [][NextPolls]_vars

(***************************************************************************)
(* The Go scheduler: a goroutine that can run does run.  The steps of each *)
(* goroutine are those of its function in the build that runs; what the    *)
(* calls return is the inventory service's choice, and the fatal errors of *)
(* the runtime (SeqPanic, ConcurrentMapWrites) are outcomes no scheduling  *)
(* owes.  The channel is always received from: a send never blocks.        *)
(***************************************************************************)
CollectSteps ==
    \/ CollectListFails
    \/ CollectList
    \/ CollectSpawn
    \/ CollectJoin

HostSteps(d) ==
    \/ HostListClustersFails(d)
    \/ HostListClusters(d)
    \/ HostJoin(d)
    \/ SeqListClustersFails(d)
    \/ SeqListClusters(d)
    \/ SeqHostsFails(d)
    \/ SeqHosts(d)
    \/ SeqPropertiesFails(d)
    \/ SeqProperties(d)
    \/ SeqSend(d)
    \/ FlatHostRetrieveFails(d)
    \/ FlatHostRetrieve(d)
    \/ FlatHostSend(d)

DatastoreSteps(d) ==
    \/ DatastoreListFails(d)
    \/ DatastoreList(d)
    \/ DatastoreRetrieveFails(d)
    \/ DatastoreRetrieve(d)
    \/ DatastoreSend(d)
    \/ FlatDatastoreRetrieveFails(d)
    \/ FlatDatastoreRetrieve(d)

ClusterSteps(d, k) ==
    \/ ClusterHostsFails(d, k)
    \/ ClusterHosts(d, k)
    \/ ClusterRetrieveFails(d, k)
    \/ ClusterRetrieve(d, k)
    \/ ClusterSend(d, k)

Fairness ==
    /\ WF_vars(CollectSteps)
    /\ \A d \in DCs :
          /\ WF_vars(HostSteps(d))
          /\ WF_vars(DatastoreSteps(d))
          /\ \A k \in 1..MaxClusters : WF_vars(ClusterSteps(d, k))

FairSpec == Init /\ [][Next]_vars /\ Fairness

(***************************************************************************)
(* The getters of hostMetrics applied to one host: the fields of its       *)
(* summary are drawn from the values below, the ends of each field's type  *)
(* among them.                                                             *)
(***************************************************************************)
OverallMemoryUsages == {0, 1, 2048, 1048576, 2147483647, -2147483647 - 1}

CpuMhzs == {0, 2600, 2147483647, -1}

NumCpuCoress == {0, 8, 32767, -32768}

OverallCpuUsages == {0, 1200}

\* The int64 values 0, 2^34 (17179869184) and 2^53 + 1, as bytes.
MemorySizes ==
    {<<0, 0, 0, 0, 0, 0, 0, 0>>, <<0, 0, 0, 0, 4, 0, 0, 0>>, <<1, 0, 0, 0, 0, 0, 32, 0>>}

ConnectionStates == {"connected", "disconnected", "notResponding", "", "standby"}

Summaries ==
    [MemorySize : MemorySizes, OverallMemoryUsage : OverallMemoryUsages,
     CpuMhz : CpuMhzs, NumCpuCores : NumCpuCoress,
     OverallCpuUsage : OverallCpuUsages, ConnectionState : ConnectionStates]

HostMetricNames == {hostMetrics[m] : m \in 1..Len(hostMetrics)}

InitGetters ==
    /\ build = "concurrent"
    /\ inventory = [dcs |-> 0, cl |-> [d \in DCs |-> 0], hosts |-> 0,
                    ds |-> [d \in DCs |-> 0]]
    /\ pc = "idle"
    /\ listErr = FALSE
    /\ i = 0
    /\ fdc = 0
    /\ vcenterAvailable = 1
    /\ wg = 0
    /\ wgClusters = [d \in DCs |-> 0]
    /\ task = [t \in Tasks |-> NoTask]
    /\ ch = [s \in Senders |-> <<>>]
    /\ crashed = FALSE
    /\ poll = 1
    /\ prev = NoScrape
    /\ summary \in Summaries
    /\ value = NoValue

\* metric.metricGetter(h) for every metric of hostMetrics.
Evaluate ==
    /\ value = NoValue
    /\ value' = [name \in HostMetricNames |-> metricGetter(name, summary)]
    /\ UNCHANGED <<build, inventory, pc, listErr, i, fdc, vcenterAvailable, wg,
                   wgClusters, task, ch, crashed, poll, prev, summary>>

NextGetters == Evaluate

SpecGetters == InitGetters /\ [][NextGetters]_vars

(***************************************************************************)
(* C1.  When the datacenter listing fails, no collection task is launched  *)
(* and the stream of the poll holds exactly one sample, the availability   *)
(* sample with value 0, and no host or datastore sample.                   *)
(* Violated: Collect clears the flag and returns without sending the       *)
(* vcenter_available sample; the one sample of the stream is e.up.         *)
(***************************************************************************)
C1_ListingFailureEmitsAvailabilityZero ==
    (Returned /\ listErr) =>
        /\ \A t \in Tasks : task[t].at = "none" /\ ch[t] = <<>>
        /\ Len(ch[Collector]) = 1
        /\ ch[Collector][1].name = "vcenter_available"
        /\ ch[Collector][1].value = 0

(***************************************************************************)
(* C2.  When the listing succeeds, one partition's fetch succeeds and      *)
(* another partition's list or fetch fails, every sample of the succeeding *)
(* partition is in the stream and the availability sample sent at the end  *)
(* has value 0.                                                            *)
(* Violated: the per-datacenter collectors never clear the flag, and in    *)
(* the flat ones a later success sets it back to 1.                        *)
(***************************************************************************)
C2_PartialFailureReportsUnavailable ==
    (/\ Returned
     /\ ~listErr
     /\ \E t \in Tasks : Succeeded(t)
     /\ \E t \in Tasks : CallFailed(t)) =>
        /\ \A t \in Tasks : Succeeded(t) => ch[t] = Expected(t)
        /\ \A n \in AvailabilitySent : ch[Collector][n].value = 0
        /\ AvailabilitySent # {}

(***************************************************************************)
(* C3.  When the listing succeeds and every partition's list or fetch call *)
(* fails, the stream holds the availability sample with value 0 and no     *)
(* host or datastore sample.                                               *)
(* Violated: the per-datacenter collectors leave the flag at 1.            *)
(***************************************************************************)
HostCallsFailed(d) ==
    LET r == task[HostTask(d)]
    IN CASE build = "concurrent" ->
              \/ r.err = "clusters"
              \/ /\ r.clusters # <<>>
                 /\ \A k \in 1..Len(r.clusters) : task[ClusterTask(d, k)].err # "none"
         [] build = "sequential" ->
              \/ r.err = "clusters"
              \/ r.err = "hosts" /\ r.ci = 1
              \/ /\ r.err = "properties"
                 /\ \A n \in 1..Len(ch[HostTask(d)]) : ~ch[HostTask(d)][n].retrieved
         [] OTHER -> r.err # "none"

EveryPartitionFailed ==
    /\ inventory.dcs > 0
    /\ \A d \in 1..inventory.dcs :
          task[DatastoreTask(d)].err # "none" /\ HostCallsFailed(d)

C3_TotalFailureReportsUnavailable ==
    (Returned /\ ~listErr /\ EveryPartitionFailed) =>
        /\ \A t \in Tasks : ch[t] = <<>>
        /\ AvailabilitySent # {}
        /\ \A n \in AvailabilitySent : ch[Collector][n].value = 0

(***************************************************************************)
(* C4.  Collect returns only after every goroutine started in the poll,    *)
(* the per-cluster ones of a host goroutine included, has finished, and no *)
(* host or datastore sample is sent once Collect has returned.             *)
(***************************************************************************)
C4_CollectReturnsAfterAllTasks ==
    /\ [](Returned => \A t \in Tasks : Finished(t))
    /\ [][Returned => \A t \in Tasks : ch'[t] = ch[t]]_vars

\* Collect has returned from a poll in which a per-cluster goroutine sent
\* the samples of a host.
C4_Witness ==
    /\ Returned
    /\ \E t \in Tasks : t.kind = "cluster" /\ task[t].at = "done" /\ ch[t] # <<>>

(***************************************************************************)
(* C5.  In a poll whose listing succeeds the availability sample is sent   *)
(* after every host and datastore sample (every goroutine has finished and *)
(* none sends any more), it is the last sample of Collect, and its value   *)
(* is that of the flag once all goroutines are through.                    *)
(***************************************************************************)
C5_AvailabilityLastAndFinal ==
    /\ \A n \in AvailabilitySent :
          /\ \A t \in Tasks : Finished(t)
          /\ ch[Collector][n].value = vcenterAvailable
          /\ n = Len(ch[Collector])
    /\ (Returned /\ ~listErr) => Cardinality(AvailabilitySent) = 1

\* The sample was sent with value 0 after goroutines that sent samples.
C5_Witness ==
    /\ \E n \in AvailabilitySent : ch[Collector][n].value = 0
    /\ \E t \in Tasks : ch[t] # <<>>

(***************************************************************************)
(* C6.  Every poll, whatever calls fail, ends having sent exactly one      *)
(* availability sample together with the samples gathered.                 *)
(* Violated: a poll whose datacenter listing fails sends none (C1).        *)
(***************************************************************************)
C6_OneAvailabilitySampleEveryPoll ==
    Returned => Cardinality(AvailabilitySent) = 1

(***************************************************************************)
(* C7.  A goroutine whose property fetch failed sends no sample for the    *)
(* partition: no sample is built from an object whose properties were not  *)
(* retrieved.                                                              *)
(* Violated: the sequential collectHostMetrics logs the error of           *)
(* host.Properties and goes on into the loop over hostMetrics with the     *)
(* zero value of h.                                                        *)
(***************************************************************************)
C7_NoSampleFromFailedFetch ==
    \A t \in Tasks :
        /\ task[t].at = "send" => task[t].snap.retrieved
        /\ \A n \in 1..Len(ch[t]) : ch[t][n].retrieved

(***************************************************************************)
(* C8.  A failure to list or fetch one partition keeps no other partition  *)
(* from being collected: every sibling cluster, and every datacenter's     *)
(* datastores, none of whose own calls failed, has all its samples in the  *)
(* stream of the poll.                                                     *)
(* Violated: the sequential collectHostMetrics returns at the first        *)
(* cluster whose c.Hosts fails, and the clusters after it are never read.  *)
(***************************************************************************)
\* Whether a call on cluster n of those host goroutine d listed failed (the
\* sequential goroutine keeps one error: after a failed host.Properties any
\* cluster it went through may be the one).
ClusterCallFailed(d, n) ==
    LET r == task[HostTask(d)]
    IN IF build = "concurrent" THEN task[ClusterTask(d, n)].err # "none"
       ELSE \/ r.err = "hosts" /\ n = r.ci
            \/ r.err = "properties" /\ n <= r.ci

\* Every sample of every host of the cluster is in the stream.
ClusterCollected(cluster) ==
    \A h \in 1..Len(HostsOf(cluster)) : \A m \in 1..Len(hostMetrics) :
        \E t \in Tasks : \E n \in 1..Len(ch[t]) :
            /\ ch[t][n].name = hostMetrics[m]
            /\ ch[t][n].of = HostsOf(cluster)[h]

C8_FailureDoesNotStopSiblings ==
    (Returned /\ Hierarchical) =>
        /\ \A d \in DCs : \A n \in 1..Len(task[HostTask(d)].clusters) :
              ~ClusterCallFailed(d, n) => ClusterCollected(task[HostTask(d)].clusters[n])
        /\ \A d \in DCs :
              (task[DatastoreTask(d)].at = "done" /\ task[DatastoreTask(d)].err = "none")
                  => ch[DatastoreTask(d)] = Expected(DatastoreTask(d))

(***************************************************************************)
(* C9.  Every sample a collection goroutine sends has as many label values *)
(* (those of the label getters, then the datacenter and cluster names) as  *)
(* the metric's Desc has label names.                                      *)
(***************************************************************************)
C9_LabelCountMatchesDesc ==
    \A t \in Tasks : \A n \in 1..Len(ch[t]) :
        Len(ch[t][n].labels) = Len(DescLabels(ch[t][n].name))

\* A per-datacenter build has sent host samples and datastore samples.
C9_Witness ==
    /\ Hierarchical
    /\ \E t \in Tasks : t.kind \in {"host", "cluster"} /\ ch[t] # <<>>
    /\ \E t \in Tasks : t.kind = "datastore" /\ ch[t] # <<>>

(***************************************************************************)
(* C10.  A poll over a datacenter with no cluster (or a cluster with no    *)
(* host) in which no call failed completes with no host sample for the     *)
(* empty partition and availability 1.  (The claim says the same of a      *)
(* datacenter with no datastore; the host side is stated here, whose       *)
(* Finder is the one Collect hands over at vsphere_exporter.go:110.)       *)
(* Violated: the host goroutine of a datacenter reads the shared Finder    *)
(* after the loop of Collect has set it to the next datacenter, and sends  *)
(* the hosts of that one under the name of its own (C16).                  *)
(***************************************************************************)
C10_EmptyPartitionNoSamples ==
    (Returned /\ Hierarchical /\ NoCallFailed) =>
        /\ \A n \in AvailabilitySent : ch[Collector][n].value = 1
        /\ AvailabilitySent # {}
        /\ \A t \in Tasks :
              /\ (t.kind \in {"host", "cluster"} /\ inventory.cl[t.dc] = 0) => ch[t] = <<>>
              /\ (t.kind = "cluster" /\ inventory.hosts = 0) => ch[t] = <<>>

(***************************************************************************)
(* C11.  Two consecutive polls in which every call succeeds, against the   *)
(* same inventory, send the same set of (metric name, label values) pairs, *)
(* whatever the interleaving of the goroutines of each.                    *)
(* Violated: which datacenter's objects a goroutine reads depends on when  *)
(* it runs against the loop of Collect (C16), so one poll labels the hosts *)
(* of a datacenter with another's name and the next does not.              *)
(***************************************************************************)
C11_SuccessfulPollsSamePairs ==
    (poll > 1 /\ Returned /\ NoCallFailed /\ prev.ok) => Pairs = prev.pairs

(***************************************************************************)
(* C12.  Every goroutine retrieves the properties of the objects of its    *)
(* partition with one retrieval call, however many the objects: it never   *)
(* makes a second, and it has made exactly one when it is through with a   *)
(* partition that holds objects.                                           *)
(* Violated: the sequential collectHostMetrics calls host.Properties once  *)
(* for every host of every cluster of the datacenter.                      *)
(***************************************************************************)
C12_OneRetrievalPerTask ==
    \A t \in Tasks :
        /\ task[t].calls <= 1
        /\ (/\ task[t].at = "done"
            /\ task[t].objs # <<>>
            /\ task[t].err \in {"none", "retrieve", "properties"}) => task[t].calls = 1

(***************************************************************************)
(* C13.  For every host, esxi_memory_usage_bytes is the memory usage in    *)
(* MiB times 1048576 and esxi_cpu_total_mhz is the clock rate in MHz times *)
(* the number of cores, as products in the integers: no overflow, no       *)
(* rounding, for every 32-bit usage and clock rate (2048 MiB gives         *)
(* 2147483648 = 2^31; 2600 MHz and 8 cores give 20800).                    *)
(***************************************************************************)
C13_ConversionsExact ==
    value # NoValue =>
        /\ value["esxi_memory_usage_bytes"]
              = Product(ToBits(summary.OverallMemoryUsage, 32), ToBits(1048576, 32))
        /\ value["esxi_cpu_total_mhz"]
              = Product(ToBits(summary.CpuMhz, 32), ToBits(summary.NumCpuCores, 16))
        /\ summary.OverallMemoryUsage = 2048 =>
              value["esxi_memory_usage_bytes"]
                  = [neg |-> FALSE, mag |-> [b \in 1..32 |-> IF b = 32 THEN 1 ELSE 0]]
        /\ (summary.CpuMhz = 2600 /\ summary.NumCpuCores = 8) =>
              value["esxi_cpu_total_mhz"] = Exact(20800)

\* The getters were applied to the largest usage, clock rate and core count.
C13_Witness ==
    /\ value # NoValue
    /\ summary.OverallMemoryUsage = 2147483647
    /\ summary.CpuMhz = 2147483647
    /\ summary.NumCpuCores = 32767

(***************************************************************************)
(* C14.  While the goroutines of a poll run, the flag only goes to 0: once *)
(* it is 0, no write of a goroutine of the same poll makes it 1 again.     *)
(* Violated: the flat collectors write 1 on every successful Retrieve, so  *)
(* a success after a failure sets the flag back.                           *)
(***************************************************************************)
C14_TasksOnlyClearFlag ==
    [][(pc \in {"loop", "wait"} /\ vcenterAvailable = 0) => vcenterAvailable' = 0]_vars

(***************************************************************************)
(* C15.  But for the flag, no variable is written by one goroutine of a    *)
(* poll while another reads or writes it: neither the hostsRefList and     *)
(* datastoresRefList maps nor the Finder.                                  *)
(* Violated: the goroutines of a poll assign and fill the two package      *)
(* level maps with no lock, and the loop of Collect re-sets the Finder the *)
(* goroutines it has started read.                                         *)
(***************************************************************************)
\* The package-level map the next statements of goroutine t write:
\* hostsRefList = make(...) and hostsRefList[...] = ..., and the same of
\* datastoresRefList.
Writes(t) ==
    CASE t.kind = "cluster" /\ task[t].at = "listed" -> "hostsRefList"
      [] t.kind = "host" /\ build = "concurrent" /\ task[t].at = "start" -> "hostsRefList"
      [] t.kind = "datastore" /\ Hierarchical /\ task[t].at \in {"start", "listed"}
            -> "datastoresRefList"
      [] OTHER -> "none"

\* Goroutine t is about to call a list method of the Finder.
ReadsFinder(t) ==
    /\ Hierarchical
    /\ t.kind \in {"host", "datastore"}
    /\ task[t].at = "start"

C15_OnlyFlagShared ==
    /\ \A t1, t2 \in Tasks :
          (t1 # t2 /\ Writes(t1) # "none") => Writes(t1) # Writes(t2)
    /\ pc = "loop" => \A t \in Tasks : ~ReadsFinder(t)

(***************************************************************************)
(* C16.  In the per-datacenter revisions every host and datastore sample   *)
(* carries the name of the datacenter that holds the object, and in a poll *)
(* in which no call failed every object of every datacenter has each of    *)
(* its samples in the stream once.                                         *)
(* Violated: a goroutine lists through the Finder as the loop of Collect   *)
(* last set it; started for one datacenter it reads the objects of         *)
(* another, labels them with the name of its own, and the objects of its   *)
(* own are never read.                                                     *)
(***************************************************************************)
\* The places in what t sent of the samples of metric name built from o,
\* and the same over all the goroutines, by sender and place.
PlacesIn(t, name, o) ==
    {n \in 1..Len(ch[t]) : ch[t][n].name = name /\ ch[t][n].of = o}

Places(name, o) ==
    UNION {{<<t, n>> : n \in PlacesIn(t, name, o)} : t \in Tasks}

C16_DatacenterLabelIsContaining ==
    Hierarchical =>
        /\ \A t \in Tasks : \A n \in 1..Len(ch[t]) :
              ch[t][n].retrieved => ch[t][n].labels[2] = DcName(ch[t][n].of[1])
        /\ (Returned /\ NoCallFailed) =>
              /\ \A h \in 1..Len(AllHosts) : \A m \in 1..Len(hostMetrics) :
                    Cardinality(Places(hostMetrics[m], AllHosts[h])) = 1
              /\ \A n \in 1..Len(AllDatastores) : \A m \in 1..Len(datastoreMetrics) :
                    Cardinality(Places(datastoreMetrics[m], AllDatastores[n])) = 1

(***************************************************************************)
(* C17.  A goroutine whose every call succeeded has sent, for each object  *)
(* it fetched and each metric of the registry, one sample and no more (7 a *)
(* host, 3 a datastore), and the samples of one object are in the order of *)
(* hostMetrics / datastoreMetrics.                                         *)
(***************************************************************************)
\* The objects goroutine t fetched, and the metrics of their kind.
Fetched(t) ==
    IF t.kind = "host" /\ build = "sequential"
    THEN Concat([c \in 1..Len(task[t].clusters) |-> HostsOf(task[t].clusters[c])])
    ELSE task[t].objs

MetricsOf(t) == IF t.kind = "datastore" THEN datastoreMetrics ELSE hostMetrics

C17_OneSamplePerObjectAndMetric ==
    \A t \in Fetchers :
        (task[t].at = "done" /\ task[t].err = "none") =>
            /\ Len(ch[t]) = Len(MetricsOf(t)) * Len(Fetched(t))
            /\ \A o \in 1..Len(Fetched(t)) : \A m \in 1..Len(MetricsOf(t)) :
                  /\ Cardinality(PlacesIn(t, MetricsOf(t)[m], Fetched(t)[o])) = 1
                  /\ \A m2 \in (m + 1)..Len(MetricsOf(t)) :
                        \A n \in PlacesIn(t, MetricsOf(t)[m], Fetched(t)[o]) :
                        \A n2 \in PlacesIn(t, MetricsOf(t)[m2], Fetched(t)[o]) : n < n2

\* A goroutine is through with two hosts and has sent the 7 samples of each.
C17_Witness ==
    \E t \in Fetchers :
        /\ t.kind \in {"host", "cluster"}
        /\ task[t].at = "done"
        /\ task[t].err = "none"
        /\ Len(Fetched(t)) = 2
        /\ Len(ch[t]) = 2 * Len(hostMetrics)

(***************************************************************************)
(* C18.  What a poll reports depends on that poll alone: after a poll      *)
(* whose datacenter listing failed, or that reported availability 0, the   *)
(* process is alive and a poll in which every call succeeds reports        *)
(* availability 1, once, and every goroutine of it sends the samples of    *)
(* the objects it fetched.                                                 *)
(***************************************************************************)
AfterFailedPoll == poll > 1 /\ (prev.listErr \/ prev.reported = <<0>>)

C18_AvailabilityIsOfThisPoll ==
    /\ AfterFailedPoll => (~crashed \/ pc # "idle")
    /\ (AfterFailedPoll /\ Returned /\ NoCallFailed) =>
          /\ Reported = <<1>>
          /\ \A d \in 1..inventory.dcs :
                task[HostTask(d)].at = "done" /\ task[DatastoreTask(d)].at = "done"
          /\ \A t \in Fetchers : task[t].at = "done" => ch[t] = Expected(t)

\* A poll after one whose listing failed has sent host and datastore samples.
C18_Witness ==
    /\ poll > 1
    /\ prev.listErr
    /\ Returned
    /\ NoCallFailed
    /\ \E t \in Tasks : t.kind \in {"host", "cluster"} /\ ch[t] # <<>>
    /\ \E t \in Tasks : t.kind = "datastore" /\ ch[t] # <<>>

(***************************************************************************)
(* C19.  The label values of a sample are bound by position to the label   *)
(* names of its metric: in the per-datacenter revisions a host sample      *)
(* carries (host name, datacenter name, cluster name) under the names      *)
(* (name or host, datacenter, cluster) and a datastore sample (datastore   *)
(* name, datacenter name) under (name, datacenter); in the flat revision   *)
(* the one label is the object's name.  The datacenter name is the one the *)
(* goroutine was started with, the cluster name that of the cluster the    *)
(* host was listed from.                                                   *)
(***************************************************************************)
\* What the label named labelName of sample s, sent by t, must be.
Bound(t, s, labelName) ==
    CASE labelName \in {"name", "host"} ->
            s.labels[1] = (IF ~s.retrieved THEN <<>>
                           ELSE IF s.name \in HostMetricNames
                                THEN HostSnapshot(s.of).name
                                ELSE DatastoreSnapshot(s.of).name)
      [] labelName = "datacenter" -> s.labels[2] = DcName(t.dc)
      [] labelName = "cluster" ->
            IF s.retrieved THEN s.labels[3] = ClusterName(<<s.of[1], s.of[2]>>)
            ELSE \E c \in 1..Len(task[t].clusters) :
                    s.labels[3] = ClusterName(task[t].clusters[c])

C19_LabelsBoundByPosition ==
    /\ Hierarchical =>
          /\ hostLabelNames \in {<<"name", "datacenter", "cluster">>,
                                 <<"host", "datacenter", "cluster">>}
          /\ datastoreLabelNames = <<"name", "datacenter">>
    /\ \A t \in Tasks : \A n \in 1..Len(ch[t]) :
          /\ Len(ch[t][n].labels) = Len(DescLabels(ch[t][n].name))
          /\ \A p \in 1..Len(DescLabels(ch[t][n].name)) :
                Bound(t, ch[t][n], DescLabels(ch[t][n].name)[p])

\* A per-datacenter goroutine has sent a host sample with its three labels.
C19_Witness ==
    /\ Hierarchical
    /\ \E t \in Tasks : \E n \in 1..Len(ch[t]) :
          /\ ch[t][n].name \in HostMetricNames
          /\ ch[t][n].retrieved
          /\ Len(ch[t][n].labels) = 3

(***************************************************************************)
(* C20.  For every host each of esxi_connected_state,                      *)
(* esxi_disconnected_state and esxi_not_responding_state is 0 or 1 and at  *)
(* most one of them is 1: the one of the connection state when that is     *)
(* connected, disconnected or notResponding, and none for any other state. *)
(***************************************************************************)
StateGauges ==
    [connected |-> value["esxi_connected_state"],
     disconnected |-> value["esxi_disconnected_state"],
     notResponding |-> value["esxi_not_responding_state"]]

C20_StateGaugesExclusive ==
    value # NoValue =>
        /\ \A g \in DOMAIN StateGauges : StateGauges[g] \in {Exact(0), Exact(1)}
        /\ Cardinality({g \in DOMAIN StateGauges : StateGauges[g] = Exact(1)}) <= 1
        /\ \A g \in DOMAIN StateGauges :
              StateGauges[g] = Exact(1) <=> summary.ConnectionState = g

\* The getters were applied to a host in a state that is none of the three.
C20_Witness ==
    /\ value # NoValue
    /\ summary.ConnectionState = "standby"
    /\ \A g \in DOMAIN StateGauges : StateGauges[g] = Exact(0)

(***************************************************************************)
(* C21: when every inventory call returns and the channel is received      *)
(* from, a fairly scheduled scrape terminates: whatever the number of      *)
(* datacenters and clusters, every goroutine Collect or collectHostMetrics *)
(* started finishes and Collect returns.                                   *)
(***************************************************************************)
C21_PollTerminates == <>(Returned /\ \A t \in Tasks : Finished(t))

(***************************************************************************)
(* C22: the wait groups count exactly.  wg counts the two goroutines of    *)
(* every datacenter from wg.Add on, and the wgClusters of a host goroutine *)
(* the goroutines of the clusters it listed; each of them signals Done     *)
(* once, on whichever path it returns, a failed call included: a counter   *)
(* is never negative, it is what it counted less the goroutines that have  *)
(* finished, and so zero exactly when all of them have.                    *)
(***************************************************************************)
\* The goroutines wg counts once wg.Add has run.
Counted ==
    IF pc = "idle" \/ listErr THEN {}
    ELSE {t \in Tasks : t.kind \in {"host", "datastore"} /\ t.dc <= inventory.dcs}

\* The goroutines the wgClusters of the host goroutine of datacenter d counts
\* once wgClusters.Add has run.
CountedClusters(d) ==
    IF build = "concurrent" /\ task[HostTask(d)].at \in {"wait", "done"}
    THEN {ClusterTask(d, k) : k \in 1..Len(task[HostTask(d)].clusters)}
    ELSE {}

Running(counted) == {t \in counted : task[t].at # "done"}

C22_WaitGroupsExact ==
    /\ wg >= 0
    /\ wg = Cardinality(Running(Counted))
    /\ wg = 0 <=> \A t \in Counted : task[t].at = "done"
    /\ \A d \in DCs :
          /\ wgClusters[d] >= 0
          /\ wgClusters[d] = Cardinality(Running(CountedClusters(d)))
          /\ wgClusters[d] = 0 <=> \A t \in CountedClusters(d) : task[t].at = "done"

\* Both counters are back at zero in a scrape where a datastore goroutine and
\* a per-cluster goroutine returned on a failed call and another per-cluster
\* goroutine on the normal path.
C22_Witness ==
    /\ pc = "wait"
    /\ wg = 0
    /\ \E d \in DCs :
          /\ CallFailed(DatastoreTask(d))
          /\ Cardinality(CountedClusters(d)) = 2
          /\ wgClusters[d] = 0
          /\ \E k \in 1..MaxClusters : CallFailed(ClusterTask(d, k))
          /\ \E k \in 1..MaxClusters : Succeeded(ClusterTask(d, k))

====
